---- MODULE Spec2Model ----
(***************************************************************************)
(* The command layer of the in-memory key-value server (app/command.go):   *)
(* command dispatch, the MULTI/EXEC/DISCARD transaction machine of a       *)
(* client connection, the per-command handlers and the reply written to    *)
(* the connection, with the store operations, the stream handlers and the  *)
(* blocking stream coordinator they call.  One goroutine serves each       *)
(* connection; all of them share the package-level store `db`.             *)
(***************************************************************************)
EXTENDS Integers, Sequences, FiniteSets, TLC

\* ------------------------------------------------------------------ bounds
\* Longest transaction queue a session is driven to.
MaxQueue == 2
\* Largest integer a key is driven to by directly issued INCRs.
MaxInt == 2
\* Latest time the clock is driven to, in milliseconds.
MaxTime == 3
\* Longest stream a key is driven to.
MaxStream == 3

\* The client connections (one goroutine each).
Conns == {1, 2}
\* The keys the requests name.
Keys == {"k", "j"}

\* --------------------------------------------------------------- RespData
\* RespData{Type, Str, IsNull, Array} as the handlers build it.
RespData(t, s, n, a) == [Type |-> t, Str |-> s, IsNull |-> n, Array |-> a]
SimpleString(s) == RespData("SimpleString", s, FALSE, <<>>)
BulkString(s) == RespData("BulkString", s, FALSE, <<>>)
NullBulkString == RespData("BulkString", "", TRUE, <<>>)
Error(s) == RespData("Error", s, FALSE, <<>>)
Array(a) == RespData("Array", "", FALSE, a)
NullArray == RespData("Array", "", TRUE, <<>>)
\* The zero RespData: what a handler that never returned has produced.
NoResult == RespData("", "", FALSE, <<>>)

\* ---------------------------------------------------------------- Command
Command(name, args) == [cmd |-> name, args |-> args]
NoCommand == Command("", <<>>)

\* strings.ToLower on the letters the requests use: upper- and mixed-case
\* spellings map to the lower-case word, every other string to itself.
LowerTable == {
    <<"MULTI", "multi">>, <<"Multi", "multi">>, <<"EXEC", "exec">>,
    <<"DISCARD", "discard">>, <<"Discard", "discard">>,
    <<"PING", "ping">>, <<"Ping", "ping">>, <<"ECHO", "echo">>, <<"SET", "set">>,
    <<"GET", "get">>, <<"DELETE", "delete">>, <<"DEL", "del">>,
    <<"SAVE", "save">>, <<"CONFIG", "config">>, <<"KEYS", "keys">>,
    <<"INFO", "info">>, <<"INCR", "incr">>, <<"TYPE", "type">>,
    <<"FOO", "foo">>, <<"PX", "px">>, <<"Px", "px">>, <<"EX", "ex">>,
    <<"XADD", "xadd">>, <<"XREAD", "xread">>, <<"Xread", "xread">>,
    <<"BLOCK", "block">>, <<"Block", "block">>, <<"STREAMS", "streams">> }
ToLower(s) == IF \E p \in LowerTable : p[1] = s THEN (CHOOSE p \in LowerTable : p[1] = s)[2] ELSE s

\* strconv.Atoi / strconv.Itoa on the decimal strings the store is driven to.
Digits == <<"0", "1", "2", "3", "4", "5", "6", "7", "8", "9">>
IsInt(s) == \E i \in 1..Len(Digits) : Digits[i] = s
Atoi(s) == (CHOOSE i \in 1..Len(Digits) : Digits[i] = s) - 1
Itoa(n) == Digits[n + 1]

\* ------------------------------------------------------------------ store
\* db: the key map M (a Go map: its domain is the set of keys present) and
\* the configuration fields.  A string entry holds the string and its
\* expiry (NoExpiry: none); a stream entry holds the sequence of its
\* entries.
NoExpiry == -1
Entry(v, e) == [type |-> "string", val |-> v, expireAt |-> e, stream |-> <<>>]
EmptyMap == [x \in {} |-> Entry("", NoExpiry)]
Db(m, d, f, p) == [M |-> m, dir |-> d, dbfilename |-> f, port |-> p]

MapPut(m, k, e) == [x \in DOMAIN m \cup {k} |-> IF x = k THEN e ELSE m[x]]
MapDel(m, k) == [x \in DOMAIN m \ {k} |-> m[x]]
\* Lazy expiration: the entries whose expiry has passed are dropped.
Live(m, t) == [x \in {y \in DOMAIN m : m[y].expireAt = NoExpiry \/ m[y].expireAt > t} |-> m[x]]

\* db.Add(key, value): unconditional overwrite, no TTL.
dbAdd(d, k, v) == [d EXCEPT !.M = MapPut(d.M, k, Entry(v, NoExpiry))]
\* db.Addex(key, value, ms): overwrite with expiry now + ms.
dbAddex(d, k, v, ms, t) == [d EXCEPT !.M = MapPut(d.M, k, Entry(v, t + ms))]
\* db.Get(key): *string, nil when the key is absent or expired.
dbGet(d, k, t) == IF k \in DOMAIN Live(d.M, t) THEN [ok |-> TRUE, val |-> d.M[k].val, db |-> d] ELSE [ok |-> FALSE, val |-> "", db |-> [d EXCEPT !.M = MapDel(d.M, k)]]
\* db.GetType(key): *string, nil when the key is absent or expired.
dbGetType(d, k, t) == IF k \in DOMAIN Live(d.M, t) THEN [ok |-> TRUE, val |-> d.M[k].type, db |-> d] ELSE [ok |-> FALSE, val |-> "", db |-> [d EXCEPT !.M = MapDel(d.M, k)]]
\* db.Delete(key).
dbDelete(d, k) == [d EXCEPT !.M = MapDel(d.M, k)]
\* db.Incr(key): error when the value is no base-10 integer; an absent key
\* is created with 1.
NotAnInteger == "ERR value is not an integer or out of range"
dbIncr(d, k, t) == IF k \notin DOMAIN Live(d.M, t) THEN [err |-> "", db |-> dbAdd(d, k, "1")] ELSE IF ~IsInt(d.M[k].val) THEN [err |-> NotAnInteger, db |-> d] ELSE [err |-> "", db |-> [d EXCEPT !.M[k].val = Itoa(Atoi(d.M[k].val) + 1)]]

\* ---------------------------------------------------------------- streams
\* StreamEntry{id: (milliseconds, sequence), fields} and the stream value
\* of a key.
StreamEntry(id, fields) == [id |-> id, fields |-> fields]
StreamValue(entries) == [type |-> "stream", val |-> "", expireAt |-> NoExpiry, stream |-> entries]

\* (milliseconds, sequence) lexicographic order.
IdLess(a, b) == a[1] < b[1] \/ (a[1] = b[1] /\ a[2] < b[2])

\* An id on the wire: "<milliseconds>-<sequence>".
FormatId(id) == Itoa(id[1]) \o "-" \o Itoa(id[2])

\* The id argument of XADD: "*" (all generated), "<ms>-*" (sequence
\* generated), "<ms>-<seq>" (explicit); anything else is no id.
IdParts == 0..(Len(Digits) - 1)
SeqSpellings == {<<Itoa(m) \o "-*", m>> : m \in IdParts}
IdSpellings == {<<FormatId(p), p>> : p \in IdParts \X IdParts}
ParseId(s) ==
    IF s = "*" THEN [kind |-> "auto", ms |-> 0, seq |-> 0]
    ELSE IF \E e \in SeqSpellings : e[1] = s
    THEN [kind |-> "seq", ms |-> (CHOOSE e \in SeqSpellings : e[1] = s)[2], seq |-> 0]
    ELSE IF \E e \in IdSpellings : e[1] = s
    THEN LET p == (CHOOSE e \in IdSpellings : e[1] = s)[2]
         IN  [kind |-> "id", ms |-> p[1], seq |-> p[2]]
    ELSE [kind |-> "bad", ms |-> 0, seq |-> 0]

\* The entries of the stream at key k (none when k holds no stream), and
\* the id of the last one (0-0 for an empty stream).
StreamOf(d, k) == IF k \in DOMAIN d.M /\ d.M[k].type = "stream" THEN d.M[k].stream ELSE <<>>
LastId(s) == IF Len(s) = 0 THEN <<0, 0>> ELSE s[Len(s)].id

\* NextId accepting every explicit id.
NextIdUnchecked(spec, lastId, t) ==
    CASE spec.kind = "id" -> [ok |-> TRUE, id |-> <<spec.ms, spec.seq>>]
      [] spec.kind = "seq" ->
           IF spec.ms < lastId[1] THEN [ok |-> FALSE, id |-> lastId]
           ELSE IF spec.ms = lastId[1] THEN [ok |-> TRUE, id |-> <<spec.ms, lastId[2] + 1>>]
           ELSE [ok |-> TRUE, id |-> <<spec.ms, 0>>]
      [] spec.kind = "auto" ->
           IF t > lastId[1] THEN [ok |-> TRUE, id |-> <<t, 0>>]
           ELSE [ok |-> TRUE, id |-> <<lastId[1], lastId[2] + 1>>]
      [] OTHER -> [ok |-> FALSE, id |-> lastId]

\* The id an append gets: an explicit id must be greater than the last
\* one; a generated sequence is the next one of its millisecond; a
\* generated id takes the clock's millisecond when that is ahead.
NextId(spec, lastId, t) ==
    CASE spec.kind = "id" -> [ok |-> IdLess(lastId, <<spec.ms, spec.seq>>), id |-> <<spec.ms, spec.seq>>]
      [] spec.kind = "seq" ->
           IF spec.ms < lastId[1] THEN [ok |-> FALSE, id |-> lastId]
           ELSE IF spec.ms = lastId[1] THEN [ok |-> TRUE, id |-> <<spec.ms, lastId[2] + 1>>]
           ELSE [ok |-> TRUE, id |-> <<spec.ms, 0>>]
      [] spec.kind = "auto" ->
           IF t > lastId[1] THEN [ok |-> TRUE, id |-> <<t, 0>>]
           ELSE [ok |-> TRUE, id |-> <<lastId[1], lastId[2] + 1>>]
      [] OTHER -> [ok |-> FALSE, id |-> lastId]

InvalidId == "ERR The ID specified in XADD is equal or smaller than the target stream top item"
WrongType == "WRONGTYPE Operation against a key holding the wrong kind of value"

\* StreamAppend(key, idSpec, fields): creates the stream when the key is
\* absent; TypeError on a key of another type; InvalidIdError when the id
\* is not greater than the last one.
StreamAppend(d, k, idSpec, fields, t) ==
    IF k \in DOMAIN Live(d.M, t) /\ d.M[k].type # "stream"
    THEN [err |-> WrongType, id |-> <<0, 0>>, db |-> d]
    ELSE LET entries == IF k \in DOMAIN Live(d.M, t) THEN d.M[k].stream ELSE <<>>
             n == NextId(ParseId(idSpec), LastId(entries), t)
         IN  IF ~n.ok THEN [err |-> InvalidId, id |-> <<0, 0>>, db |-> d]
             ELSE [err |-> "", id |-> n.id, db |-> [d EXCEPT !.M = MapPut(d.M, k, StreamValue(Append(entries, StreamEntry(n.id, fields))))]]

\* The entries of a stream with an id greater than the given one.
EntriesAfter(s, id) == SelectSeq(s, LAMBDA e : IdLess(id, e.id))

\* A request waiting in the blocking stream coordinator: the key, the id
\* its entries must exceed, the time it gives up (NoDeadline: never), and
\* whether an append has woken it.
NoDeadline == -1
Wait(k, after, deadline) == [key |-> k, after |-> after, deadline |-> deadline, woken |-> FALSE]
NoWait == Wait("", <<0, 0>>, NoDeadline)

\* --------------------------------------------------------------- handlers
\* What a handler leaves behind: its return value, the store after it,
\* whether it panicked (index out of range) before returning, and whether
\* it went through a store operation (which is serialized on the store's
\* lock).
Ret(res, d) == [result |-> res, db |-> d, panic |-> FALSE, store |-> FALSE, wait |-> NoWait]
RetStore(res, d) == [result |-> res, db |-> d, panic |-> FALSE, store |-> TRUE, wait |-> NoWait]
Panic(d) == [result |-> NoResult, db |-> d, panic |-> TRUE, store |-> FALSE, wait |-> NoWait]
\* The handler has not returned: it is suspended in the blocking stream
\* coordinator.
Suspend(d, w) == [result |-> NoResult, db |-> d, panic |-> FALSE, store |-> TRUE, wait |-> w]

handleTypeCommand(cmd, d, t) ==
    IF Len(cmd.args) # 1
    THEN Ret(Error("ERR wrong number of arguments for 'type' command"), d)
    ELSE LET val == dbGetType(d, cmd.args[1], t)
         IN  IF ~val.ok THEN RetStore(SimpleString("none"), val.db)
             ELSE RetStore(SimpleString(val.val), val.db)

\* handleSetCommand taking every fourth argument for the PX value.
handleSetCommandAnyOption(cmd, d, t) ==
    IF Len(cmd.args) = 2
    THEN RetStore(SimpleString("OK"), dbAdd(d, cmd.args[1], cmd.args[2]))
    ELSE IF Len(cmd.args) = 4
    THEN IF ~IsInt(cmd.args[4])
         THEN Ret(Error("wrong numeric value for expiry"), d)
         ELSE RetStore(SimpleString("OK"), dbAddex(d, cmd.args[1], cmd.args[2], Atoi(cmd.args[4]), t))
    ELSE Ret(Error("ERR wrong number of arguments for 'set' command"), d)

handleSetCommand(cmd, d, t) ==
    IF Len(cmd.args) = 2
    THEN RetStore(SimpleString("OK"), dbAdd(d, cmd.args[1], cmd.args[2]))
    ELSE IF Len(cmd.args) = 4 /\ ToLower(cmd.args[3]) = "px"
    THEN IF ~IsInt(cmd.args[4])
         THEN Ret(Error("wrong numeric value for expiry"), d)
         ELSE RetStore(SimpleString("OK"), dbAddex(d, cmd.args[1], cmd.args[2], Atoi(cmd.args[4]), t))
    ELSE Ret(Error("ERR wrong number of arguments for 'set' command"), d)

handleGetCommand(cmd, d, t) ==
    IF Len(cmd.args) # 1
    THEN Ret(Error("ERR wrong number of arguments for 'get' command"), d)
    ELSE LET val == dbGet(d, cmd.args[1], t)
         IN  IF ~val.ok THEN RetStore(NullBulkString, val.db)
             ELSE RetStore(BulkString(val.val), val.db)

handleConfigGet(param, d) ==
    CASE param = "dir" -> Array(<<BulkString("dir"), BulkString(d.dir)>>)
      [] param = "dbfilename" -> Array(<<BulkString("dbfilename"), BulkString(d.dbfilename)>>)
      [] param = "port" -> Array(<<BulkString("port"), BulkString(d.port)>>)
      [] OTHER -> NullArray

handleConfigSet(param, value, d) ==
    CASE param = "dir" -> Ret(SimpleString("OK"), [d EXCEPT !.dir = value])
      [] param = "dbfilename" -> Ret(SimpleString("OK"), [d EXCEPT !.dbfilename = value])
      [] OTHER -> Ret(Error("ERR unsupported config parameter"), d)

\* cmd.args[2] of the set branch is read whatever the length: with two
\* arguments the index is out of range.
handleConfigCommand(cmd, d) ==
    IF Len(cmd.args) < 2
    THEN Ret(Error("ERR wrong number of arguments for config command"), d)
    ELSE CASE ToLower(cmd.args[1]) = "get" -> Ret(handleConfigGet(cmd.args[2], d), d)
           [] ToLower(cmd.args[1]) = "set" ->
                IF Len(cmd.args) < 3 THEN Panic(d)
                ELSE handleConfigSet(cmd.args[2], cmd.args[3], d)
           [] OTHER -> Ret(Error("ERR unknown config subcommand"), d)

\* The orders in which a range over a Go map can produce the keys of s.
RECURSIVE Orders(_)
Orders(s) == IF s = {} THEN {<<>>} ELSE UNION {{<<x>> \o o : o \in Orders(s \ {x})} : x \in s}

\* The reply handleKeysCommand builds from the keys in the order visited.
KeysReply(keys) ==
    IF Len(keys) = 0 THEN NullArray
    ELSE Array([i \in 1..Len(keys) |-> BulkString(keys[i])])

\* handleKeysCommand when nothing writes the map during its range loop:
\* one outcome per iteration order.  db.M is read directly, not through a
\* store operation.
handleKeysCommand(cmd, d) ==
    IF Len(cmd.args) # 1
    THEN {Ret(Error("ERR wrong number of arguments for 'keys' command"), d)}
    ELSE {Ret(KeysReply(o), d) : o \in Orders(DOMAIN d.M)}

handleIncrCommand(cmd, d, t) ==
    IF Len(cmd.args) # 1
    THEN Ret(Error("ERR wrong number of arguments for 'incr' command"), d)
    ELSE LET r == dbIncr(d, cmd.args[1], t)
         IN  IF r.err # "" THEN RetStore(Error(r.err), r.db)
             ELSE RetStore(SimpleString("OK"), r.db)

handleDeleteCommand(cmd, d) ==
    IF Len(cmd.args) # 1
    THEN Ret(Error("ERR wrong number of arguments for 'delete' command"), d)
    ELSE RetStore(SimpleString("OK"), dbDelete(d, cmd.args[1]))

\* One stream entry, and the reply of XREAD for one key, on the wire.
EntryReply(e) == Array(<<BulkString(FormatId(e.id)), Array([i \in 1..Len(e.fields) |-> BulkString(e.fields[i])])>>)
XReadReply(k, entries) ==
    IF Len(entries) = 0 THEN NullArray
    ELSE Array(<<Array(<<BulkString(k), Array([i \in 1..Len(entries) |-> EntryReply(entries[i])])>>)>>)

\* XADD <key> <id> <field> <value>...: the reply is the id of the entry.
handleXAddCommand(cmd, d, t) ==
    IF Len(cmd.args) < 4 \/ Len(cmd.args) % 2 # 0
    THEN Ret(Error("ERR wrong number of arguments for 'xadd' command"), d)
    ELSE LET r == StreamAppend(d, cmd.args[1], cmd.args[2], SubSeq(cmd.args, 3, Len(cmd.args)), t)
         IN  IF r.err # "" THEN RetStore(Error(r.err), d)
             ELSE RetStore(BulkString(FormatId(r.id)), r.db)

\* The id argument of XREAD: "$" is the last id of the stream now.
XReadAfter(arg, s) ==
    IF arg = "$" THEN [ok |-> TRUE, id |-> LastId(s)]
    ELSE LET p == ParseId(arg) IN [ok |-> p.kind = "id", id |-> <<p.ms, p.seq>>]

\* The first look of XREAD at the stream: the entries after the id when
\* there are some; else a null array, or with BLOCK the handler registers
\* in the coordinator and is suspended (time 0: without deadline).
XReadQuery(k, idArg, blocking, ms, d, t) ==
    LET after == XReadAfter(idArg, StreamOf(d, k))
        entries == EntriesAfter(StreamOf(d, k), after.id)
    IN  IF ~after.ok THEN Ret(Error("ERR Invalid stream ID specified as stream command argument"), d)
        ELSE IF Len(entries) > 0 \/ ~blocking THEN RetStore(XReadReply(k, entries), d)
        ELSE Suspend(d, Wait(k, after.id, IF ms = 0 THEN NoDeadline ELSE t + ms))

\* XREAD [BLOCK <ms>] STREAMS <key> <id>.
handleXReadCommand(cmd, d, t) ==
    IF Len(cmd.args) = 3 /\ ToLower(cmd.args[1]) = "streams"
    THEN XReadQuery(cmd.args[2], cmd.args[3], FALSE, 0, d, t)
    ELSE IF Len(cmd.args) = 5 /\ ToLower(cmd.args[1]) = "block" /\ ToLower(cmd.args[3]) = "streams"
    THEN IF ~IsInt(cmd.args[2])
         THEN Ret(Error("ERR timeout is not an integer or out of range"), d)
         ELSE XReadQuery(cmd.args[4], cmd.args[5], TRUE, Atoi(cmd.args[2]), d, t)
    ELSE Ret(Error("ERR wrong number of arguments for 'xread' command"), d)

\* db.SaveRDB(): the persistence collaborator succeeds or reports an error.
SaveRDB(d) == {RetStore(SimpleString("OK"), d), RetStore(Error("ERR write failed"), d)}

\* ------------------------------------------------------- transaction machine
\* ClientConn{transactionQueue, isTransaction}.
ClientConn(tx, q) == [isTransaction |-> tx, transactionQueue |-> q]

\* A handler's outcome together with the session it leaves.
WithConn(o, cc) == [result |-> o.result, db |-> o.db, panic |-> o.panic, store |-> o.store, wait |-> o.wait, cc |-> cc]

\* MULTI: opens the transaction; an error when one is already open.
handleMultiCommand(cmd, cc, d) ==
    IF cc.isTransaction
    THEN WithConn(Ret(Error("ERR MULTI calls can not be nested"), d), cc)
    ELSE WithConn(Ret(SimpleString("OK"), d), ClientConn(TRUE, <<>>))

\* EXEC outside a transaction.  (Inside one, the replay is ExecBegin,
\* ExecStep and ExecEnd below.)
handleExecCommand(cc, d) ==
    WithConn(Ret(Error("ERR EXEC without MULTI"), d), cc)

\* DISCARD: drops the queue and closes the transaction; an error outside one.
handleDiscardCommand(cc, d) ==
    IF ~cc.isTransaction
    THEN WithConn(Ret(Error("ERR DISCARD without MULTI"), d), cc)
    ELSE WithConn(Ret(SimpleString("OK"), d), ClientConn(FALSE, <<>>))

\* ControlDispatch with EXEC sent to the MULTI handler.
ControlDispatchExecAsMulti(cmd, cc, d) ==
    CASE ToLower(cmd.cmd) = "multi" -> handleMultiCommand(cmd, cc, d)
      [] ToLower(cmd.cmd) = "exec" -> handleMultiCommand(cmd, cc, d)
      [] ToLower(cmd.cmd) = "discard" -> handleDiscardCommand(cc, d)

\* The first switch of executeCommand: the transaction-control commands.
ControlDispatch(cmd, cc, d) ==
    CASE ToLower(cmd.cmd) = "multi" -> handleMultiCommand(cmd, cc, d)
      [] ToLower(cmd.cmd) = "exec" -> handleExecCommand(cc, d)
      [] ToLower(cmd.cmd) = "discard" -> handleDiscardCommand(cc, d)

\* The other names the second switch of executeCommand has a case for.
\* Their handlers are outside this model: no request carries these names.
ListStreamNames == {"lpush", "rpush", "lpop", "rpop", "llen", "lrange", "xlen", "xrange"}

\* The second switch of executeCommand: one set of outcomes per command.
CommandDispatch(cmd, d, t) ==
    CASE ToLower(cmd.cmd) = "ping" -> {Ret(SimpleString("PONG"), d)}
      [] ToLower(cmd.cmd) = "echo" ->
           IF Len(cmd.args) < 1 THEN {Panic(d)} ELSE {Ret(BulkString(cmd.args[1]), d)}
      [] ToLower(cmd.cmd) = "set" -> {handleSetCommand(cmd, d, t)}
      [] ToLower(cmd.cmd) = "delete" -> {handleDeleteCommand(cmd, d)}
      [] ToLower(cmd.cmd) = "get" -> {handleGetCommand(cmd, d, t)}
      [] ToLower(cmd.cmd) = "save" -> SaveRDB(d)
      [] ToLower(cmd.cmd) = "config" -> {handleConfigCommand(cmd, d)}
      [] ToLower(cmd.cmd) = "keys" -> handleKeysCommand(cmd, d)
      [] ToLower(cmd.cmd) = "info" -> {Ret(BulkString("role:master"), d)}
      [] ToLower(cmd.cmd) = "incr" -> {handleIncrCommand(cmd, d, t)}
      [] ToLower(cmd.cmd) = "type" -> {handleTypeCommand(cmd, d, t)}
      [] ToLower(cmd.cmd) = "xadd" -> {handleXAddCommand(cmd, d, t)}
      [] ToLower(cmd.cmd) = "xread" -> {handleXReadCommand(cmd, d, t)}
      [] ToLower(cmd.cmd) \notin ListStreamNames -> {Ret(Error("ERR unknown command '" \o cmd.cmd \o "'"), d)}

\* Whether the first switch of executeCommand takes the command.
IsControl(cmd) == ToLower(cmd.cmd) \in {"multi", "exec", "discard"}

\* executeCommand with the queueing test ahead of the control switch.
executeCommandQueueFirst(cmd, cc, context, d, t) ==
    IF cc.isTransaction /\ ~context
    THEN {WithConn(Ret(SimpleString("QUEUED"), d), ClientConn(TRUE, Append(cc.transactionQueue, cmd)))}
    ELSE IF IsControl(cmd)
    THEN {ControlDispatch(cmd, cc, d)}
    ELSE {WithConn(o, cc) : o \in CommandDispatch(cmd, d, t)}

\* executeCommand with no discard case in the control switch.
executeCommandNoDiscard(cmd, cc, context, d, t) ==
    IF IsControl(cmd) /\ ToLower(cmd.cmd) # "discard"
    THEN {ControlDispatch(cmd, cc, d)}
    ELSE IF cc.isTransaction /\ ~context
    THEN {WithConn(Ret(SimpleString("QUEUED"), d), ClientConn(TRUE, Append(cc.transactionQueue, cmd)))}
    ELSE {WithConn(o, cc) : o \in CommandDispatch(cmd, d, t)}

\* executeCommand queueing whether or not the session is in a transaction.
executeCommandQueueAlways(cmd, cc, context, d, t) ==
    IF IsControl(cmd)
    THEN {ControlDispatch(cmd, cc, d)}
    ELSE IF ~context
    THEN {WithConn(Ret(SimpleString("QUEUED"), d), ClientConn(TRUE, Append(cc.transactionQueue, cmd)))}
    ELSE {WithConn(o, cc) : o \in CommandDispatch(cmd, d, t)}

\* executeCommand(cmd, clientConn, context): the outcomes of one call.
executeCommand(cmd, cc, context, d, t) ==
    IF IsControl(cmd)
    THEN {ControlDispatch(cmd, cc, d)}
    ELSE IF cc.isTransaction /\ ~context
    THEN {WithConn(Ret(SimpleString("QUEUED"), d), ClientConn(TRUE, Append(cc.transactionQueue, cmd)))}
    ELSE {WithConn(o, cc) : o \in CommandDispatch(cmd, d, t)}

\* ------------------------------------------------------------------- wire
\* RESPreader.Write(v) and RESPreader.WriteArray(items): the replies put on
\* the connection.
Write(v) == <<v>>
WriteArray(items) == <<Array(items)>>

\* What a handleCommand call leaves on the wire, and whether it panicked.
Wrote(out) == [out |-> out, panic |-> FALSE]
WritePanic == [out |-> <<>>, panic |-> TRUE]

\* The standard response writing at the end of handleCommand.
WriteResult(result) ==
    IF result.Type = "Array" /\ Len(result.Array) > 0
    THEN Wrote(WriteArray(result.Array))
    ELSE Wrote(Write(result))

\* handleConfigGetResponse(cmd, r): reads cmd.args[1] whatever the length.
handleConfigGetResponse(cmd, d) ==
    IF Len(cmd.args) < 2 THEN WritePanic
    ELSE LET result == handleConfigGet(cmd.args[2], d)
         IN  IF result.Type = "Array" THEN Wrote(WriteArray(result.Array))
             ELSE Wrote(Write(result))

\* handleCommand after executeCommand has returned: the special case of
\* CONFIG GET (cmd.args[0] is read whatever the length), then the standard
\* response.
handleCommandWrite(cmd, o) ==
    IF o.panic THEN WritePanic
    ELSE IF ToLower(cmd.cmd) = "config"
    THEN IF Len(cmd.args) < 1 THEN WritePanic
         ELSE IF ToLower(cmd.args[1]) = "get" THEN handleConfigGetResponse(cmd, o.db)
         ELSE WriteResult(o.result)
    ELSE WriteResult(o.result)

\* --------------------------------------------------------------- requests
\* The transaction-control requests, in several letter cases.
ControlRequests == {Command(n, <<>>) : n \in {"MULTI", "multi", "EXEC", "exec", "DISCARD", "Discard"}}

\* The requests connection 1 sends: every handler of this model, with a
\* right and a wrong number of arguments, and an unknown command.
Requests == ControlRequests \cup {
    Command("PING", <<>>), Command("Ping", <<>>),
    Command("ECHO", <<>>), Command("ECHO", <<"v">>),
    Command("SET", <<"k">>), Command("SET", <<"k", "v">>),
    Command("GET", <<>>), Command("GET", <<"k">>),
    Command("DELETE", <<"k">>), Command("DEL", <<"k">>),
    Command("INCR", <<>>), Command("INCR", <<"k">>),
    Command("KEYS", <<>>), Command("KEYS", <<"*">>),
    Command("TYPE", <<"k">>),
    Command("CONFIG", <<>>), Command("CONFIG", <<"GET">>),
    Command("CONFIG", <<"GET", "dir">>), Command("CONFIG", <<"SET", "dir">>),
    Command("CONFIG", <<"SET", "dir", "/data">>),
    Command("SAVE", <<>>),
    Command("FOO", <<>>) }

\* The requests connection 1 sends while its transaction is open: the
\* control requests, and to be queued a command of each kind (well formed,
\* of wrong arity, unknown, CONFIG with and without arguments).
TxRequests == ControlRequests \cup {
    Command("ECHO", <<>>),
    Command("SET", <<"k">>), Command("SET", <<"k", "v">>),
    Command("GET", <<"k">>),
    Command("INCR", <<"k">>),
    Command("CONFIG", <<>>), Command("CONFIG", <<"GET", "dir">>),
    Command("FOO", <<>>) }

\* The requests the other connections send meanwhile: writes of the store.
OtherRequests == {Command("SET", <<"j", "v">>), Command("DELETE", <<"k">>)}
AllRequests == Requests \cup OtherRequests

\* The requests of the concurrent scenario, sent by every connection:
\* transactions, increments, writes and key scans.
ConcRequests == {
    Command("MULTI", <<>>), Command("EXEC", <<>>),
    Command("INCR", <<"k">>), Command("SET", <<"j", "v">>),
    Command("DELETE", <<"k">>), Command("KEYS", <<"*">>) }

\* Of these, the ones sent while the transaction is open.
ConcTxRequests == {Command("EXEC", <<>>), Command("INCR", <<"k">>), Command("SET", <<"j", "v">>)}

\* The requests of the expiry scenario, sent by every connection: SET in
\* each shape of its argument list (with and without PX, PX in two letter
\* cases, a PX value that is no integer, one, three and five arguments,
\* another option word), and the reads of the key.
TimeRequests == {
    Command("SET", <<"k">>),
    Command("SET", <<"k", "v">>),
    Command("SET", <<"k", "w", "PX", "1">>),
    Command("SET", <<"k", "w", "Px", "2">>),
    Command("SET", <<"k", "w", "PX", "x">>),
    Command("SET", <<"k", "w", "EX", "1">>),
    Command("SET", <<"k", "w", "PX">>),
    Command("SET", <<"k", "w", "PX", "1", "NX">>),
    Command("GET", <<"k">>),
    Command("TYPE", <<"k">>),
    Command("KEYS", <<"*">>) }

\* The requests of the configuration scenario, sent by every connection:
\* CONFIG GET and CONFIG SET of each parameter and of an unknown one.
ConfigRequests == {
    Command("CONFIG", <<"GET", "dir">>),
    Command("CONFIG", <<"get", "dbfilename">>),
    Command("CONFIG", <<"GET", "port">>),
    Command("CONFIG", <<"GET", "maxmemory">>),
    Command("CONFIG", <<"SET", "dir", "/data">>),
    Command("CONFIG", <<"SET", "dir", "/var">>),
    Command("CONFIG", <<"set", "dbfilename", "d.rdb">>),
    Command("CONFIG", <<"SET", "port", "7000">>),
    Command("CONFIG", <<"SET", "maxmemory", "1">>) }

\* The requests of the stream scenario, sent by every connection: appends
\* with an explicit id, a generated sequence and a generated id, one of
\* wrong arity, and a read without BLOCK.
StreamRequests == {
    Command("XADD", <<"s", "1-1", "f", "v">>),
    Command("XADD", <<"s", "1-5", "f", "v">>),
    Command("XADD", <<"s", "1-*", "f", "v">>),
    Command("XADD", <<"s", "*", "f", "v">>),
    Command("XADD", <<"s", "1-1", "f">>),
    Command("XREAD", <<"STREAMS", "s", "0-0">>) }

\* The requests of the blocking scenario, sent by every connection: reads
\* with BLOCK 0 and with a timeout, and appends.
BlockRequests == {
    Command("XADD", <<"s", "*", "f", "v">>),
    Command("XREAD", <<"BLOCK", "0", "STREAMS", "s", "$">>),
    Command("Xread", <<"Block", "1", "STREAMS", "s", "$">>) }

\* The requests of the scenario of blocking reads and transactions, sent
\* by every connection, and of these the ones sent while the transaction
\* is open.
TxBlockRequests == {
    Command("MULTI", <<>>), Command("EXEC", <<>>),
    Command("XADD", <<"s", "*", "f", "v">>),
    Command("XREAD", <<"BLOCK", "0", "STREAMS", "s", "$">>) }
TxBlockTxRequests == TxBlockRequests \ {Command("MULTI", <<>>)}

\* ------------------------------------------------------------------ state
VARIABLES
    db,          \* the shared store: key map and configuration
    now,         \* the clock the expiry times are compared with
    mu,          \* the store's lock: the connection holding it, 0 when free
    clientConn,  \* per connection: isTransaction and transactionQueue
    pc,          \* per connection: "idle", "exec" (replaying), "keys" (scanning)
    cur,         \* per connection: the request being handled, when not idle
    res,         \* per connection: the replies EXEC has collected so far
    scan,        \* per connection: the keys the KEYS range loop has produced
    mustVisit,   \* per connection: keys present since the scan began, not yet produced
    snaps,       \* per connection: the key sets the map has held during the scan
    raced,       \* per connection: the map was written during the scan
    wait,        \* per connection: its request waiting in the stream coordinator, if any
    panicked,    \* a goroutine panicked: the process is gone
    last         \* the handleCommand call the last step completed, if it completed one

vars == <<db, now, mu, clientConn, pc, cur, res, scan, mustVisit, snaps, raced, wait, panicked, last>>

Sendable(c) == IF c # 1 THEN OtherRequests ELSE IF clientConn[c].isTransaction THEN TxRequests ELSE Requests

ConcSendable(c) == IF clientConn[c].isTransaction THEN ConcTxRequests ELSE ConcRequests

TxBlockSendable(c) == IF clientConn[c].isTransaction THEN TxBlockTxRequests ELSE TxBlockRequests

\* The record of a completed handleCommand call: the connection, the
\* request, the session and the store as the completing step found them,
\* the replies written, and whether the call panicked.
Handled(c, cmd, cc, d, w) == [conn |-> c, cmd |-> cmd, wasTx |-> cc.isTransaction, preQueue |-> cc.transactionQueue, preDb |-> d, out |-> w.out, panic |-> w.panic]

\* The record of a step that completed no call.
NoCall == Handled(0, NoCommand, ClientConn(FALSE, <<>>), Db(EmptyMap, "", "", ""), Wrote(<<>>))

Init ==
    /\ db = Db(EmptyMap, "/tmp", "dump.rdb", "6379")
    /\ now = 0
    /\ mu = 0
    /\ clientConn = [c \in Conns |-> ClientConn(FALSE, <<>>)]
    /\ pc = [c \in Conns |-> "idle"]
    /\ cur = [c \in Conns |-> NoCommand]
    /\ res = [c \in Conns |-> <<>>]
    /\ scan = [c \in Conns |-> <<>>]
    /\ mustVisit = [c \in Conns |-> {}]
    /\ snaps = [c \in Conns |-> {}]
    /\ raced = [c \in Conns |-> FALSE]
    /\ wait = [c \in Conns |-> NoWait]
    /\ panicked = FALSE
    /\ last = NoCall

\* The scans of the other connections see connection c's write of the map.
NoteWrite(c, newM) ==
    /\ snaps' = [x \in Conns |-> IF x # c /\ pc[x] = "keys" THEN snaps[x] \cup {DOMAIN newM} ELSE snaps[x]]
    /\ mustVisit' = [x \in Conns |-> IF x # c /\ pc[x] = "keys" THEN mustVisit[x] \cap DOMAIN newM ELSE mustVisit[x]]
    /\ raced' = [x \in Conns |-> IF x # c /\ pc[x] = "keys" /\ newM # db.M THEN TRUE ELSE raced[x]]

\* An append that notifies nobody.
NotifyNobody(newDb) == wait' = wait

\* StreamAppend notifies the coordinator: the requests waiting on a key
\* whose stream has grown are woken.
Notify(newDb) ==
    wait' = [x \in Conns |->
                IF wait[x].key # "" /\ Len(StreamOf(newDb, wait[x].key)) > Len(StreamOf(db, wait[x].key))
                THEN [wait[x] EXCEPT !.woken = TRUE] ELSE wait[x]]

\* The streams stay within the length of the model.
StreamInBound(cmd, room) ==
    (ToLower(cmd.cmd) = "xadd" /\ Len(cmd.args) >= 1) => Len(StreamOf(db, cmd.args[1])) + room <= MaxStream

\* The INCRs stay within the digits of the model.
IncrInBound(cmd) ==
    (ToLower(cmd.cmd) = "incr" /\ Len(cmd.args) = 1 /\ cmd.args[1] \in DOMAIN db.M /\ IsInt(db.M[cmd.args[1]].val))
        => Atoi(db.M[cmd.args[1]].val) < MaxInt

\* The requests handled in several steps: the replay of EXEC inside a
\* transaction, and the range loop of a directly executed KEYS.
IsReplay(c, cmd) == ToLower(cmd.cmd) = "exec" /\ clientConn[c].isTransaction
IsScan(c, cmd) == ToLower(cmd.cmd) = "keys" /\ ~clientConn[c].isTransaction /\ Len(cmd.args) = 1

\* handleCommand(cmd, r, clientConn) for every request handled in one
\* step: executeCommand, then the reply.  A store operation waits for the
\* store's lock.
HandleCommand(c, cmd) ==
    /\ ~panicked /\ pc[c] = "idle"
    /\ ~IsReplay(c, cmd) /\ ~IsScan(c, cmd)
    /\ (clientConn[c].isTransaction /\ ~IsControl(cmd)) => Len(clientConn[c].transactionQueue) < MaxQueue
    /\ ~clientConn[c].isTransaction => (IncrInBound(cmd) /\ StreamInBound(cmd, 1))
    /\ \E o \in executeCommand(cmd, clientConn[c], FALSE, db, now) :
        LET w == handleCommandWrite(cmd, o)
        IN  /\ o.wait = NoWait
            /\ o.store => mu = 0
            /\ Notify(o.db)
            /\ db' = o.db
            /\ clientConn' = [clientConn EXCEPT ![c] = o.cc]
            /\ panicked' = w.panic
            /\ last' = Handled(c, cmd, clientConn[c], db, w)
            /\ NoteWrite(c, o.db.M)
    /\ UNCHANGED <<now, mu, pc, cur, res, scan>>

\* EXEC inside a transaction: handleExecCommand takes the store's lock for
\* the whole replay.
ExecBegin(c, cmd) ==
    /\ ~panicked /\ pc[c] = "idle"
    /\ IsReplay(c, cmd)
    /\ \A i \in 1..Len(clientConn[c].transactionQueue) :
          IncrInBound(clientConn[c].transactionQueue[i]) /\ StreamInBound(clientConn[c].transactionQueue[i], Len(clientConn[c].transactionQueue))
    /\ mu = 0
    /\ mu' = c
    /\ pc' = [pc EXCEPT ![c] = "exec"]
    /\ cur' = [cur EXCEPT ![c] = cmd]
    /\ res' = [res EXCEPT ![c] = <<>>]
    /\ last' = NoCall
    /\ UNCHANGED <<wait, db, now, clientConn, scan, mustVisit, snaps, raced, panicked>>

\* The replay loop: the next queued command through executeCommand with
\* context = true.  A handler that suspends (handleXReadCommand gets the
\* command only, so it blocks as in a direct call) suspends the replay.
ExecStep(c) ==
    /\ ~panicked /\ pc[c] = "exec"
    /\ wait[c] = NoWait
    /\ Len(res[c]) < Len(clientConn[c].transactionQueue)
    /\ \E o \in executeCommand(clientConn[c].transactionQueue[Len(res[c]) + 1], clientConn[c], TRUE, db, now) :
        /\ db' = o.db
        /\ NoteWrite(c, o.db.M)
        /\ IF o.panic
           THEN /\ panicked' = TRUE
                /\ last' = Handled(c, cur[c], clientConn[c], db, WritePanic)
                /\ UNCHANGED <<res, wait>>
           ELSE IF o.wait # NoWait
           THEN /\ wait' = [wait EXCEPT ![c] = o.wait]
                /\ last' = NoCall
                /\ UNCHANGED <<res, panicked>>
           ELSE /\ res' = [res EXCEPT ![c] = Append(res[c], o.result)]
                /\ Notify(o.db)
                /\ last' = NoCall
                /\ UNCHANGED panicked
    /\ UNCHANGED <<now, mu, clientConn, pc, cur, scan>>

\* The end of the replay: the queue is cleared, the lock released, the
\* array of replies returned, and handleCommand writes it.
ExecEnd(c) ==
    /\ ~panicked /\ pc[c] = "exec"
    /\ Len(res[c]) = Len(clientConn[c].transactionQueue)
    /\ clientConn' = [clientConn EXCEPT ![c] = ClientConn(FALSE, <<>>)]
    /\ mu' = 0
    /\ pc' = [pc EXCEPT ![c] = "idle"]
    /\ cur' = [cur EXCEPT ![c] = NoCommand]
    /\ res' = [res EXCEPT ![c] = <<>>]
    /\ last' = Handled(c, cur[c], clientConn[c], db, WriteResult(Array(res[c])))
    /\ UNCHANGED <<wait, db, now, scan, mustVisit, snaps, raced, panicked>>

\* KEYS executed directly: handleKeysCommand starts its range over db.M.
\* No lock is taken.
KeysBegin(c, cmd) ==
    /\ ~panicked /\ pc[c] = "idle"
    /\ IsScan(c, cmd)
    /\ pc' = [pc EXCEPT ![c] = "keys"]
    /\ cur' = [cur EXCEPT ![c] = cmd]
    /\ scan' = [scan EXCEPT ![c] = <<>>]
    /\ mustVisit' = [mustVisit EXCEPT ![c] = DOMAIN db.M]
    /\ snaps' = [snaps EXCEPT ![c] = {DOMAIN db.M}]
    /\ raced' = [raced EXCEPT ![c] = FALSE]
    /\ last' = NoCall
    /\ UNCHANGED <<wait, db, now, mu, clientConn, res, panicked>>

\* One iteration of the range loop: a key of the map not produced yet.
KeysStep(c) ==
    /\ ~panicked /\ pc[c] = "keys"
    /\ \E k \in DOMAIN db.M \ {scan[c][i] : i \in 1..Len(scan[c])} :
        /\ scan' = [scan EXCEPT ![c] = Append(scan[c], k)]
        /\ mustVisit' = [mustVisit EXCEPT ![c] = mustVisit[c] \ {k}]
    /\ last' = NoCall
    /\ UNCHANGED <<wait, db, now, mu, clientConn, pc, cur, res, snaps, raced, panicked>>

\* The range loop ends once every key that stayed in the map has been
\* produced; handleCommand writes the reply.
KeysEnd(c) ==
    /\ ~panicked /\ pc[c] = "keys"
    /\ mustVisit[c] = {}
    /\ pc' = [pc EXCEPT ![c] = "idle"]
    /\ cur' = [cur EXCEPT ![c] = NoCommand]
    /\ scan' = [scan EXCEPT ![c] = <<>>]
    /\ snaps' = [snaps EXCEPT ![c] = {}]
    /\ raced' = [raced EXCEPT ![c] = FALSE]
    /\ last' = Handled(c, cur[c], clientConn[c], db, WriteResult(KeysReply(scan[c])))
    /\ UNCHANGED <<wait, db, now, mu, clientConn, res, mustVisit, panicked>>

\* A map write during the range loop is a data race: the runtime may stop
\* the process ("concurrent map iteration and map write").
KeysFatal(c) ==
    /\ ~panicked /\ pc[c] = "keys"
    /\ raced[c]
    /\ panicked' = TRUE
    /\ last' = Handled(c, cur[c], clientConn[c], db, WritePanic)
    /\ UNCHANGED <<wait, db, now, mu, clientConn, pc, cur, res, scan, mustVisit, snaps, raced>>

\* A handler that keeps the store's lock while it is suspended.
SuspendedLockKept(c) == c

\* The store's lock as a handler leaves it when it suspends: released.
SuspendedLock(c) == 0

\* XREAD with BLOCK executed directly and finding no entry: the request is
\* registered in the coordinator under the store's lock, the lock is
\* released, and the handler is suspended.
XReadBegin(c, cmd) ==
    /\ ~panicked /\ pc[c] = "idle"
    /\ ~clientConn[c].isTransaction
    /\ mu = 0
    /\ \E o \in executeCommand(cmd, clientConn[c], FALSE, db, now) :
        /\ o.wait # NoWait
        /\ o.wait.deadline <= MaxTime
        /\ wait' = [wait EXCEPT ![c] = o.wait]
    /\ mu' = SuspendedLock(c)
    /\ pc' = [pc EXCEPT ![c] = "xread"]
    /\ cur' = [cur EXCEPT ![c] = cmd]
    /\ last' = NoCall
    /\ UNCHANGED <<db, now, clientConn, res, scan, mustVisit, snaps, raced, panicked>>

\* The suspended XREAD of connection c returns r: to handleCommand, which
\* writes it, or to the replay of EXEC, which collects it.
Deliver(c, r) ==
    /\ wait' = [wait EXCEPT ![c] = NoWait]
    /\ IF pc[c] = "xread"
       THEN /\ pc' = [pc EXCEPT ![c] = "idle"]
            /\ cur' = [cur EXCEPT ![c] = NoCommand]
            /\ last' = Handled(c, cur[c], clientConn[c], db, WriteResult(r))
            /\ UNCHANGED res
       ELSE /\ res' = [res EXCEPT ![c] = Append(res[c], r)]
            /\ last' = NoCall
            /\ UNCHANGED <<pc, cur>>

\* A woken request takes the lock again and looks at the stream again: it
\* returns the entries after its id, or goes on waiting when there are none.
XReadWake(c) ==
    /\ ~panicked
    /\ wait[c].key # "" /\ wait[c].woken
    /\ mu \in {0, c}
    /\ LET entries == EntriesAfter(StreamOf(db, wait[c].key), wait[c].after)
       IN  IF Len(entries) = 0
           THEN /\ wait' = [wait EXCEPT ![c].woken = FALSE]
                /\ last' = NoCall
                /\ UNCHANGED <<pc, cur, res>>
           ELSE Deliver(c, XReadReply(wait[c].key, entries))
    /\ UNCHANGED <<db, now, mu, clientConn, scan, mustVisit, snaps, raced, panicked>>

\* The time of a waiting request has elapsed: it takes the lock again,
\* looks at the stream again and returns what is there, a null array when
\* nothing is.
XReadTimeout(c) ==
    /\ ~panicked
    /\ wait[c].key # "" /\ wait[c].deadline # NoDeadline /\ now >= wait[c].deadline
    /\ mu \in {0, c}
    /\ Deliver(c, XReadReply(wait[c].key, EntriesAfter(StreamOf(db, wait[c].key), wait[c].after)))
    /\ UNCHANGED <<db, now, mu, clientConn, scan, mustVisit, snaps, raced, panicked>>

\* A millisecond passes.
Tick ==
    /\ ~panicked
    /\ now < MaxTime
    /\ now' = now + 1
    /\ last' = NoCall
    /\ UNCHANGED <<wait, db, mu, clientConn, pc, cur, res, scan, mustVisit, snaps, raced, panicked>>

Next ==
    \/ \E c \in Conns : \E cmd \in AllRequests : cmd \in Sendable(c) /\ HandleCommand(c, cmd)
    \/ \E c \in Conns : \E cmd \in AllRequests : cmd \in Sendable(c) /\ ExecBegin(c, cmd)
    \/ \E c \in Conns : ExecStep(c)
    \/ \E c \in Conns : ExecEnd(c)
    \/ \E c \in Conns : \E cmd \in AllRequests : cmd \in Sendable(c) /\ KeysBegin(c, cmd)
    \/ \E c \in Conns : KeysStep(c)
    \/ \E c \in Conns : KeysEnd(c)
    \/ \E c \in Conns : KeysFatal(c)

Spec == Init /\ [][Next]_vars

\* Every connection runs transactions, increments and key scans at once.
NextConc ==
    \/ \E c \in Conns : \E cmd \in ConcRequests : cmd \in ConcSendable(c) /\ HandleCommand(c, cmd)
    \/ \E c \in Conns : \E cmd \in ConcRequests : cmd \in ConcSendable(c) /\ ExecBegin(c, cmd)
    \/ \E c \in Conns : ExecStep(c)
    \/ \E c \in Conns : ExecEnd(c)
    \/ \E c \in Conns : \E cmd \in ConcRequests : cmd \in ConcSendable(c) /\ KeysBegin(c, cmd)
    \/ \E c \in Conns : KeysStep(c)
    \/ \E c \in Conns : KeysEnd(c)
    \/ \E c \in Conns : KeysFatal(c)

SpecConc == Init /\ [][NextConc]_vars

\* Keys with an expiry while the clock runs: every connection sets and
\* reads the key.
NextTime ==
    \/ \E c \in Conns : \E cmd \in TimeRequests : HandleCommand(c, cmd)
    \/ \E c \in Conns : \E cmd \in TimeRequests : KeysBegin(c, cmd)
    \/ \E c \in Conns : KeysStep(c)
    \/ \E c \in Conns : KeysEnd(c)
    \/ \E c \in Conns : KeysFatal(c)
    \/ Tick

SpecTime == Init /\ [][NextTime]_vars

\* Configuration: every connection reads and sets the parameters.
NextConfig == \E c \in Conns : \E cmd \in ConfigRequests : HandleCommand(c, cmd)

SpecConfig == Init /\ [][NextConfig]_vars

\* Blocking reads and transactions: every connection appends, reads with
\* BLOCK, and queues both in transactions.
NextTxBlock ==
    \/ \E c \in Conns : \E cmd \in TxBlockRequests : cmd \in TxBlockSendable(c) /\ HandleCommand(c, cmd)
    \/ \E c \in Conns : \E cmd \in TxBlockRequests : cmd \in TxBlockSendable(c) /\ ExecBegin(c, cmd)
    \/ \E c \in Conns : ExecStep(c)
    \/ \E c \in Conns : ExecEnd(c)
    \/ \E c \in Conns : \E cmd \in TxBlockRequests : cmd \in TxBlockSendable(c) /\ XReadBegin(c, cmd)
    \/ \E c \in Conns : XReadWake(c)

SpecTxBlock == Init /\ [][NextTxBlock]_vars

\* Streams: every connection appends and reads.
NextStream ==
    \/ \E c \in Conns : \E cmd \in StreamRequests : HandleCommand(c, cmd)
    \/ Tick

SpecStream == Init /\ [][NextStream]_vars

\* Blocking reads: every connection appends and reads with BLOCK.
NextBlock ==
    \/ \E c \in Conns : \E cmd \in BlockRequests : HandleCommand(c, cmd)
    \/ \E c \in Conns : \E cmd \in BlockRequests : XReadBegin(c, cmd)
    \/ \E c \in Conns : XReadWake(c)
    \/ \E c \in Conns : XReadTimeout(c)
    \/ Tick

SpecBlock == Init /\ [][NextBlock]_vars

\* The goroutine of a woken or timed-out request is scheduled, and time
\* passes.
SpecBlockFair ==
    SpecBlock /\ WF_vars(Tick) /\ \A c \in Conns : WF_vars(XReadWake(c)) /\ WF_vars(XReadTimeout(c))

\* ----------------------------------------------------------------- claims
\* The step into this state completed a handleCommand call.
Completed == last.conn # 0
LastName == ToLower(last.cmd.cmd)
\* The session of the connection whose call completed.
LastConn == clientConn[last.conn]
\* The completed call wrote exactly this one reply and did not panic.
Replied(v) == ~last.panic /\ last.out = <<v>>
\* The completed call wrote exactly one reply, an Error.
RepliedError == ~last.panic /\ Len(last.out) = 1 /\ last.out[1].Type = "Error"

\* C1: while a session is Queuing, every command other than MULTI, EXEC and
\* DISCARD is appended unchanged to the end of its queue, is not executed
\* against the keyspace or the configuration, and is answered QUEUED
\* (stated for the calls that return: the ones that panic fall under C8).
C1_QueuedVerbatim ==
    (Completed /\ last.wasTx /\ LastName \notin {"multi", "exec", "discard"} /\ ~last.panic)
        => /\ Replied(SimpleString("QUEUED"))
           /\ LastConn = ClientConn(TRUE, Append(last.preQueue, last.cmd))
           /\ db = last.preDb

\* C2: EXEC in the Queuing state executes every queued command once, in
\* order; its reply is one array with one element per queued command; the
\* session is then Normal with an empty queue.
C2_ExecReplaysQueue ==
    (Completed /\ last.wasTx /\ LastName = "exec")
        => /\ ~last.panic
           /\ Len(last.out) = 1
           /\ last.out[1].Type = "Array"
           /\ Len(last.out[1].Array) = Len(last.preQueue)
           /\ LastConn = ClientConn(FALSE, <<>>)

\* A connection is between the first and the last queued command of its EXEC.
MidExec(c) == pc[c] = "exec" /\ Len(res[c]) >= 1 /\ Len(res[c]) < Len(clientConn[c].transactionQueue)

\* C3: between the first and the last queued command of one connection's
\* EXEC, no command of another connection reads or mutates the keyspace:
\* no other connection's range over the map starts or advances, and the
\* map changes only by the replay itself.
C3_ExecUninterrupted ==
    [][\A c \in Conns : MidExec(c) =>
          /\ \A x \in Conns \ {c} : scan'[x] = scan[x] /\ (pc'[x] = "keys" => pc[x] = "keys")
          /\ (db'.M # db.M => res'[c] # res[c])]_vars

\* C4: MULTI in the Normal state opens the transaction and replies OK;
\* MULTI while Queuing replies an error and leaves the session state and
\* the queue as they were.
C4_Multi ==
    (Completed /\ LastName = "multi")
        => IF last.wasTx
           THEN RepliedError /\ LastConn = ClientConn(TRUE, last.preQueue)
           ELSE Replied(SimpleString("OK")) /\ LastConn.isTransaction

\* C4 witness: a MULTI was answered with an error inside a transaction
\* that had already queued commands.
C4_Witness ==
    Completed /\ LastName = "multi" /\ last.wasTx /\ Len(last.preQueue) = MaxQueue /\ RepliedError

\* C5: DISCARD in the Queuing state clears the queue without executing a
\* queued command, leaves keyspace and configuration as they were, replies
\* OK and returns the session to Normal.
C5_Discard ==
    (Completed /\ last.wasTx /\ LastName = "discard")
        => /\ Replied(SimpleString("OK"))
           /\ LastConn = ClientConn(FALSE, <<>>)
           /\ db = last.preDb

\* C5 witness: a DISCARD dropped a queue that held a SET of a key the
\* store does not hold.
C5_Witness ==
    /\ Completed /\ last.wasTx /\ LastName = "discard"
    /\ \E i \in 1..Len(last.preQueue) : last.preQueue[i] = Command("SET", <<"k", "v">>)
    /\ "k" \notin DOMAIN db.M
    /\ LastConn = ClientConn(FALSE, <<>>)

\* C6: EXEC or DISCARD in the Normal state replies an error and leaves the
\* session state, the queue and the keyspace as they were.
C6_ExecDiscardOutsideTx ==
    (Completed /\ ~last.wasTx /\ LastName \in {"exec", "discard"})
        => /\ RepliedError
           /\ LastConn = ClientConn(FALSE, last.preQueue)
           /\ db = last.preDb

\* C6 witness: an EXEC outside a transaction was refused while the store
\* held a key.
C6_Witness ==
    Completed /\ ~last.wasTx /\ LastName = "exec" /\ RepliedError /\ DOMAIN db.M # {}

\* The argument counts of the command surface.
ArityOK(cmd) ==
    CASE ToLower(cmd.cmd) = "ping" -> Len(cmd.args) = 0
      [] ToLower(cmd.cmd) = "echo" -> Len(cmd.args) = 1
      [] ToLower(cmd.cmd) = "set" -> Len(cmd.args) \in {2, 4}
      [] ToLower(cmd.cmd) \in {"get", "delete", "incr", "keys", "type"} -> Len(cmd.args) = 1
      [] ToLower(cmd.cmd) = "config" -> Len(cmd.args) >= 1 /\ Len(cmd.args) = (IF ToLower(cmd.args[1]) = "set" THEN 3 ELSE 2)
      [] OTHER -> TRUE
ArityError(name) == Error("ERR wrong number of arguments for '" \o name \o "' command")

\* C7: a request for a supported command with the wrong number of
\* arguments is answered with the arity error naming the command, and
\* leaves keyspace and configuration as they were.
C7_ArityErrors ==
    (Completed /\ ~last.wasTx /\ ~ArityOK(last.cmd))
        => Replied(ArityError(LastName)) /\ db = last.preDb

\* C8: every request results in exactly one reply written to the
\* connection; no request aborts the handler without a reply.
C8_OneReplyEach ==
    Completed => ~last.panic /\ Len(last.out) = 1

\* The Integer reply.
Integer(n) == RespData("Integer", Itoa(n), FALSE, <<>>)

\* C9: INCR replies the integer value of the key after the increment:
\* MULTI; INCR k; INCR k; EXEC on a fresh k replies the array [1, 2].
C9_IncrRepliesValue ==
    /\ (Completed /\ ~last.wasTx /\ last.cmd = Command("INCR", <<"k">>) /\ ("k" \in DOMAIN last.preDb.M => IsInt(last.preDb.M["k"].val)))
          => Replied(Integer(Atoi(db.M["k"].val)))
    /\ (Completed /\ last.wasTx /\ LastName = "exec" /\ last.preQueue = <<Command("INCR", <<"k">>), Command("INCR", <<"k">>)>> /\ ~last.panic /\ "k" \in DOMAIN db.M /\ db.M["k"].val = "2")
          => Replied(Array(<<Integer(1), Integer(2)>>))

\* The keys a KEYS reply lists.
Listed(scanned) == {scanned[i] : i \in 1..Len(scanned)}

\* C10: keyspace operations are linearizable: an INCR adds exactly one to
\* the value it finds, and the scan of KEYS returns the keys of one state
\* the keyspace was in while the scan ran.
C10_Linearizable ==
    [][\A c \in Conns :
          /\ (last'.conn = c /\ ~last'.wasTx /\ last'.cmd = Command("INCR", <<"k">>) /\ "k" \in DOMAIN db.M /\ IsInt(db.M["k"].val))
                => Atoi(db'.M["k"].val) = Atoi(db.M["k"].val) + 1
          /\ (pc[c] = "keys" /\ pc'[c] = "idle") => Listed(scan[c]) \in snaps[c]]_vars
\* The entry of key k has an expiry and it has passed at time t.
Expired(d, k, t) == k \in DOMAIN d.M /\ d.M[k].expireAt # NoExpiry /\ d.M[k].expireAt <= t

\* C11: after a key's expiry time has passed every read behaves as if the
\* key did not exist: GET replies null, TYPE replies none, and the KEYS
\* range loop does not produce the key; before the expiry time GET replies
\* the value that was set.
C11_ExpiredIsAbsent ==
    [][/\ \A c \in Conns : (pc[c] = "keys" /\ Len(scan'[c]) > Len(scan[c]))
               => ~Expired(db, scan'[c][Len(scan'[c])], now)
       /\ (last'.conn # 0 /\ ~last'.wasTx /\ ~last'.panic /\ Len(last'.cmd.args) = 1)
               => LET k == last'.cmd.args[1]
                      n == ToLower(last'.cmd.cmd)
                  IN  /\ (n = "get" /\ Expired(db, k, now)) => last'.out = <<NullBulkString>>
                      /\ (n = "type" /\ Expired(db, k, now)) => last'.out = <<SimpleString("none")>>
                      /\ (n = "get" /\ k \in DOMAIN db.M /\ ~Expired(db, k, now))
                             => last'.out = <<BulkString(db.M[k].val)>>]_vars

\* The entries the waiting request of connection c would get now.
NewEntries(c) == EntriesAfter(StreamOf(db, wait[c].key), wait[c].after)
\* The step into this state completed an XREAD of connection c with a
\* reply that holds entries.
GotEntries(c) ==
    /\ last.conn = c /\ LastName = "xread" /\ ~last.panic
    /\ Len(last.out) = 1 /\ last.out[1].Type = "Array" /\ ~last.out[1].IsNull /\ Len(last.out[1].Array) > 0

Increasing(s) == \A i \in 1..(Len(s) - 1) : IdLess(s[i].id, s[i + 1].id)

\* C14: the entry ids of every stream are strictly increasing; an XADD
\* with an explicit id lower than or equal to the last id is answered with
\* an error and leaves the stream unchanged; an XADD with a generated
\* sequence gets the next sequence of its millisecond (1-* after 1-5: 1-6).
C14_StreamIdsIncrease ==
    /\ \A k \in DOMAIN db.M : Increasing(StreamOf(db, k))
    /\ (Completed /\ ~last.wasTx /\ LastName = "xadd" /\ Len(last.cmd.args) = 4)
          => LET key == last.cmd.args[1]
                 pre == StreamOf(last.preDb, key)
                 id == ParseId(last.cmd.args[2])
             IN  /\ (id.kind = "id" /\ ~IdLess(LastId(pre), <<id.ms, id.seq>>))
                        => (RepliedError /\ db = last.preDb)
                 /\ (id.kind = "seq" /\ Len(pre) > 0 /\ id.ms = LastId(pre)[1])
                        => /\ Replied(BulkString(FormatId(<<id.ms, LastId(pre)[2] + 1>>)))
                           /\ LastId(StreamOf(db, key)) = <<id.ms, LastId(pre)[2] + 1>>
                           /\ Len(StreamOf(db, key)) = Len(pre) + 1
                 /\ (last.cmd.args[2] = "1-*" /\ LastId(pre) = <<1, 5>>) => Replied(BulkString("1-6"))

\* XADD s 1-* after 1-5 has been answered 1-6.
C14_Witness ==
    /\ Completed /\ last.cmd = Command("XADD", <<"s", "1-*", "f", "v">>)
    /\ LastId(StreamOf(last.preDb, "s")) = <<1, 5>>
    /\ Replied(BulkString("1-6"))

\* The names of the supported command surface, in lower case.
Supported == {
    "ping", "echo", "set", "get", "delete", "del", "keys", "type", "incr",
    "lpush", "rpush", "lpop", "rpop", "llen", "lrange",
    "xadd", "xlen", "xrange", "xread",
    "multi", "exec", "discard", "config", "save", "info" }

\* C15: in the Normal state a request is answered with the error
\* "ERR unknown command '<name>'" exactly when its name in lower case is
\* not a supported command (DEL, the alias of DELETE, is one); stated for
\* the calls that return.
C15_UnknownCommand ==
    (Completed /\ ~last.wasTx /\ ~last.panic)
        => (Replied(Error("ERR unknown command '" \o last.cmd.cmd \o "'")) <=> LastName \notin Supported)

\* The configuration parameters, and the value of one in the store.
ConfigParams == {"dir", "dbfilename", "port"}
Param(d, p) == CASE p = "dir" -> d.dir [] p = "dbfilename" -> d.dbfilename [] p = "port" -> d.port

\* C16: CONFIG SET p v of a parameter p among dir, dbfilename and port
\* replies OK and sets p to v; CONFIG GET p replies the array [p, value of
\* p]; CONFIG GET or SET of another parameter replies an Error and leaves
\* the configuration unchanged.
C16_ConfigSetGet ==
    (Completed /\ ~last.wasTx /\ ~last.panic /\ LastName = "config" /\ Len(last.cmd.args) >= 2)
        => LET sub == ToLower(last.cmd.args[1])
               p == last.cmd.args[2]
           IN  /\ (sub = "set" /\ Len(last.cmd.args) = 3 /\ p \in ConfigParams)
                      => (Replied(SimpleString("OK")) /\ Param(db, p) = last.cmd.args[3])
               /\ (sub = "get" /\ Len(last.cmd.args) = 2 /\ p \in ConfigParams)
                      => Replied(Array(<<BulkString(p), BulkString(Param(last.preDb, p))>>))
               /\ (sub \in {"get", "set"} /\ p \notin ConfigParams)
                      => (RepliedError /\ db = last.preDb)

\* C17: the session of a connection is changed only by a call completed on
\* that connection; and while connection a is Queuing, a call completed on
\* another connection that is Normal is not answered QUEUED, queues
\* nothing, and leaves the session of a as it was.
C17_SessionPerConnection ==
    [][\A a \in Conns :
          /\ clientConn'[a] # clientConn[a] => last'.conn = a
          /\ (last'.conn \notin {0, a} /\ ~last'.panic /\ clientConn[a].isTransaction /\ ~last'.wasTx)
                => /\ last'.out # <<SimpleString("QUEUED")>>
                   /\ clientConn'[last'.conn].transactionQueue = <<>>
                   /\ clientConn'[a] = clientConn[a]]_vars

\* While connection 1 is Queuing with a command in its queue, connection 2
\* in the Normal state has had its SET executed.
C17_Witness ==
    /\ clientConn[1].isTransaction /\ Len(clientConn[1].transactionQueue) > 0
    /\ last.conn = 2 /\ ~last.wasTx /\ LastName = "set" /\ Replied(SimpleString("OK"))
    /\ "j" \in DOMAIN db.M /\ "j" \notin DOMAIN last.preDb.M

\* C18: only a directly issued blocking XREAD is ever suspended; an EXEC
\* replaying its queue completes, with the replayed commands executed and
\* not queued again, and leaves the session Normal with an empty queue.
C18_OnlyDirectXReadSuspends ==
    /\ \A c \in Conns : wait[c] # NoWait => pc[c] = "xread"
    /\ (Completed /\ last.wasTx /\ LastName = "exec")
          => /\ ~last.panic
             /\ LastConn = ClientConn(FALSE, <<>>)
             /\ \A i \in 1..Len(last.out) : last.out[i].Type = "Array"
                    => \A j \in 1..Len(last.out[i].Array) : last.out[i].Array[j] # SimpleString("QUEUED")

\* The spellings of the PX option, and the decimal PX values of the requests.
PxSpellings == {"PX", "Px", "pX", "px"}
PxValues == {Digits[i] : i \in 1..Len(Digits)}

\* C19: SET k v overwrites k with the string v and no expiry; SET k v PX ms
\* overwrites it with expiry now + ms; a SET of any other shape, or with a
\* PX value that is no integer, is answered with an Error and leaves the
\* store as it was.
C19_SetShapes ==
    (Completed /\ ~last.wasTx /\ LastName = "set")
        => LET a == last.cmd.args
           IN  IF Len(a) = 2
               THEN Replied(SimpleString("OK")) /\ db.M[a[1]] = Entry(a[2], NoExpiry)
               ELSE IF Len(a) = 4 /\ a[3] \in PxSpellings /\ a[4] \in PxValues
               THEN Replied(SimpleString("OK")) /\ db.M[a[1]] = Entry(a[2], now + Atoi(a[4]))
               ELSE RepliedError /\ db = last.preDb

\* A SET with a PX value that is no integer has been answered with an
\* Error while k held a value with an expiry.
C19_Witness ==
    /\ Completed /\ last.cmd = Command("SET", <<"k", "w", "PX", "x">>) /\ RepliedError
    /\ "k" \in DOMAIN db.M /\ db.M["k"].expireAt # NoExpiry /\ db = last.preDb

\* C20: the transaction queue of every session holds no MULTI, EXEC or
\* DISCARD in any letter case, and it is empty whenever the session is
\* in the Normal state.
C20_QueueHoldsNoControl ==
    \A c \in Conns :
        /\ \A i \in 1..Len(clientConn[c].transactionQueue) :
              ToLower(clientConn[c].transactionQueue[i].cmd) \notin {"multi", "exec", "discard"}
        /\ ~clientConn[c].isTransaction => clientConn[c].transactionQueue = <<>>

\* A lower-case multi has been received by a session that is Queuing with
\* commands in its queue, and the queue is as it was.
C20_Witness ==
    /\ Completed /\ last.wasTx /\ last.cmd = Command("multi", <<>>)
    /\ LastConn.isTransaction
    /\ Len(LastConn.transactionQueue) > 0 /\ LastConn.transactionQueue = last.preQueue

====
